---- MODULE Spec2Model ----
(***************************************************************************)
(* Model of package beta (okitec/beta): the Betacode symbol accumulator    *)
(* Sym (beta.go) and the streaming Writer (writer.go).                     *)
(*                                                                         *)
(* Runes are modelled as their code points (integers), so that the range   *)
(* tests of Sym.Add ('A' <= r <= 'Z'), unicode.ToUpper/ToLower and the     *)
(* code table are computed as the Go code computes them.  An error value   *)
(* is modelled by its message, nil by the string "nil".                    *)
(***************************************************************************)
EXTENDS Integers, Sequences, FiniteSets, TLC

VARIABLES
    sym,        \* the Sym under operation (the API's receiver, or Write's local sym)
    last,       \* the last call made on the Sym API: operation, argument, result, state before
    pc,         \* position of the Writer.Write call, or of the caller feeding a Sym
    Combining,  \* Writer.Combining
    p,          \* Write's argument, or the runes a caller feeds to one Sym, as a sequence of runes
    i,          \* index in p of the rune the loop is at
    out,        \* what this call has written to w.w, one sequence of code points per write
    emitted,    \* for each element of out: what was written, why, and from which sym
    total,      \* Write's local total
    retn,       \* Write's result n
    reterr,     \* Write's result err
    gotos,      \* number of goto nextsym taken for the current rune
    calls       \* number of Write calls made on the Writer

vars == <<sym, last, pc, Combining, p, i, out, emitted, total, retn, reterr, gotos, calls>>

writervars == <<pc, Combining, p, i, out, emitted, total, retn, reterr, gotos, calls>>

(***************************************************************************)
(* Bounds of the model.                                                    *)
(***************************************************************************)
MaxLen == 4      \* longest argument of Write
MaxCalls == 2    \* Write calls made on one Writer
MaxGotos == 3    \* goto nextsym taken for one rune

(***************************************************************************)
(* Runes.                                                                  *)
(***************************************************************************)
ch_A == 65
ch_Z == 90
ch_a == 97
ch_z == 122
ch_R == 82
ch_S == 83
ch_j == 106
ch_r == 114
ch_s == 115
ch_acute == 47        \* '/'
ch_grave == 92        \* '\\'
ch_circumflex == 61   \* '='
ch_smooth == 41       \* ')'
ch_rough == 40        \* '('
ch_iota == 124        \* '|'
ch_trema == 43        \* '+'
ch_asterisk == 42     \* '*'
ch_space == 32
ch_comma == 44
ch_hash == 35         \* a rune that is neither Betacode nor ignored

nil == "nil"

\* unicode.ToLower / unicode.ToUpper on the runes the package applies them to:
\* ASCII letters, and the Greek letters of the code table.
gr_alpha == 945
gr_omega == 969
gr_sigma == 963
gr_finalsigma == 962
gr_Sigma == 931
gr_digamma == 989

ToLower(r) == IF r >= ch_A /\ r <= ch_Z THEN r + 32 ELSE r

ToUpper(r) ==
    IF r >= ch_a /\ r <= ch_z THEN r - 32
    ELSE IF r = gr_finalsigma THEN gr_Sigma
    ELSE IF r >= gr_alpha /\ r <= gr_omega THEN r - 32
    ELSE IF r = gr_digamma THEN r - 1
    ELSE r

IsUpper(r) == r >= ch_A /\ r <= ch_Z

(***************************************************************************)
(* Sym (beta.go)                                                           *)
(***************************************************************************)
ZeroSym == [Base |-> 0, Accent |-> 0, Spiritus |-> 0, Iota |-> FALSE,
            Trema |-> FALSE, ast |-> FALSE, err |-> nil]

Vowels == {97, 101, 104, 111, 119, 105, 117}    \* "aehowiu"

vowel(r) == ToLower(r) \in Vowels

validAccent(r) == IF ~vowel(r) THEN "can't put accent on non-vowels" ELSE nil

validBreathing(r) ==
    IF ~vowel(r) /\ r # ch_R /\ r # ch_r
    THEN "can't put breathing on non-vowel non-rho" ELSE nil

validIota(r) == IF ~vowel(r) THEN "can't put iota subscriptum on non-vowels" ELSE nil

validTrema(r) == IF ~vowel(r) THEN "can't put trema on non-vowels" ELSE nil

\* Reset without sym.Base = 0.
ResetKeepsBase(s) == [ZeroSym EXCEPT !.Base = s.Base]

\* Reset without sym.ast = false.
ResetKeepsAst(s) == [ZeroSym EXCEPT !.ast = s.ast]

Reset(s) == ZeroSym

Empty(s) == s.Base = 0 /\ ~s.ast

Err(s) == s.err

\* The result of Add: the Sym after the call and the value returned.
Ret(s, ok) == [sym |-> s, ok |-> ok]

\* case r >= 'A' && r <= 'Z'
AddUpper(s, r) ==
    IF ~s.ast /\ ~Empty(s) THEN Ret(s, FALSE)
    ELSE Ret([s EXCEPT !.ast = FALSE, !.Base = r], TRUE)

\* The lowercase case without the fold to uppercase under an asterisk.
AddLowerNoFold(s, r) ==
    IF ~s.ast /\ ~Empty(s) THEN Ret(s, FALSE)
    ELSE IF ~s.ast THEN Ret([s EXCEPT !.Base = r], TRUE)
    ELSE LET s1 == [s EXCEPT !.ast = FALSE]
             s2 == IF s1.Accent # 0 THEN [s1 EXCEPT !.err = validAccent(r)] ELSE s1
             s3 == IF s2.Spiritus # 0 THEN [s2 EXCEPT !.err = validBreathing(r)] ELSE s2
         IN  IF s1.Accent # 0 /\ s2.err # nil THEN Ret(s2, FALSE)
             ELSE IF s2.Spiritus # 0 /\ s3.err # nil THEN Ret(s3, FALSE)
             ELSE Ret([s3 EXCEPT !.Base = r], TRUE)

\* case r >= 'a' && r <= 'z'
AddLower(s, r) ==
    IF ~s.ast /\ ~Empty(s) THEN Ret(s, FALSE)
    ELSE IF ~s.ast THEN Ret([s EXCEPT !.Base = r], TRUE)
    ELSE LET s1 == [s EXCEPT !.ast = FALSE]
             s2 == IF s1.Accent # 0 THEN [s1 EXCEPT !.err = validAccent(r)] ELSE s1
             s3 == IF s2.Spiritus # 0 THEN [s2 EXCEPT !.err = validBreathing(r)] ELSE s2
         IN  IF s1.Accent # 0 /\ s2.err # nil THEN Ret(s2, FALSE)
             ELSE IF s2.Spiritus # 0 /\ s3.err # nil THEN Ret(s3, FALSE)
             ELSE Ret([s3 EXCEPT !.Base = ToUpper(r)], TRUE)

\* The accent case with the base checked even under a pending asterisk.
AddAccentChecked(s, r) ==
    LET s1 == [s EXCEPT !.err = validAccent(s.Base)]
    IN  IF s1.err # nil THEN Ret(s1, FALSE) ELSE Ret([s1 EXCEPT !.Accent = r], TRUE)

\* case r == '/' || r == '\\' || r == '='
AddAccent(s, r) ==
    IF ~s.ast
    THEN LET s1 == [s EXCEPT !.err = validAccent(s.Base)]
         IN  IF s1.err # nil THEN Ret(s1, FALSE) ELSE Ret([s1 EXCEPT !.Accent = r], TRUE)
    ELSE Ret([s EXCEPT !.Accent = r], TRUE)

\* case r == '(' || r == ')'
AddSpiritus(s, r) ==
    IF ~s.ast
    THEN LET s1 == [s EXCEPT !.err = validBreathing(s.Base)]
         IN  IF s1.err # nil THEN Ret(s1, FALSE) ELSE Ret([s1 EXCEPT !.Spiritus = r], TRUE)
    ELSE Ret([s EXCEPT !.Spiritus = r], TRUE)

\* case r == '|'
AddIota(s) ==
    LET s1 == [s EXCEPT !.err = validIota(s.Base)]
    IN  IF s1.err # nil THEN Ret(s1, FALSE) ELSE Ret([s1 EXCEPT !.Iota = TRUE], TRUE)

\* The diaeresis case without the check of the base.
AddTremaUnchecked(s) == Ret([s EXCEPT !.Trema = TRUE], TRUE)

\* case r == '+'
AddTrema(s) ==
    LET s1 == [s EXCEPT !.err = validTrema(s.Base)]
    IN  IF s1.err # nil THEN Ret(s1, FALSE) ELSE Ret([s1 EXCEPT !.Trema = TRUE], TRUE)

\* case r == '*': the error is recorded, then control falls through to
\* sym.ast = true and to the final return true.
AddAsterisk(s) ==
    LET s1 == IF s.Base # 0 THEN [s EXCEPT !.err = "asterisk not at start of word"] ELSE s
    IN  Ret([s1 EXCEPT !.ast = TRUE], TRUE)

\* default
AddUnknown(s) == Ret([s EXCEPT !.err = "unknown betacode symbol"], FALSE)

Add(s, r) ==
    IF r >= ch_A /\ r <= ch_Z THEN AddUpper(s, r)
    ELSE IF r >= ch_a /\ r <= ch_z THEN AddLower(s, r)
    ELSE IF r = ch_acute \/ r = ch_grave \/ r = ch_circumflex THEN AddAccent(s, r)
    ELSE IF r = ch_rough \/ r = ch_smooth THEN AddSpiritus(s, r)
    ELSE IF r = ch_iota THEN AddIota(s)
    ELSE IF r = ch_trema THEN AddTrema(s)
    ELSE IF r = ch_asterisk THEN AddAsterisk(s)
    ELSE AddUnknown(s)

\* String with the accent written before the breathing.
StringAccentFirst(s) ==
    <<s.Base>>
        \o (IF s.Accent # 0 THEN <<s.Accent>> ELSE <<>>)
        \o (IF s.Spiritus # 0 THEN <<s.Spiritus>> ELSE <<>>)
        \o (IF s.Iota THEN <<ch_iota>> ELSE <<>>)
        \o (IF s.Trema THEN <<ch_trema>> ELSE <<>>)

\* String, as the sequence of runes of the string.
String(s) ==
    <<s.Base>>
        \o (IF s.Spiritus # 0 THEN <<s.Spiritus>> ELSE <<>>)
        \o (IF s.Accent # 0 THEN <<s.Accent>> ELSE <<>>)
        \o (IF s.Iota THEN <<ch_iota>> ELSE <<>>)
        \o (IF s.Trema THEN <<ch_trema>> ELSE <<>>)

(***************************************************************************)
(* Rendering (beta.go)                                                     *)
(***************************************************************************)
\* var code = map[rune]rune{...}
codeTable ==
    65 :> 913 @@ 66 :> 914 @@ 71 :> 915 @@ 68 :> 916 @@ 69 :> 917 @@ 86 :> 988 @@
    90 :> 918 @@ 72 :> 919 @@ 81 :> 920 @@ 73 :> 921 @@ 75 :> 922 @@ 76 :> 923 @@
    77 :> 924 @@ 78 :> 925 @@ 67 :> 926 @@ 79 :> 927 @@ 80 :> 928 @@ 82 :> 929 @@
    74 :> 931 @@ 83 :> 931 @@ 84 :> 932 @@ 85 :> 933 @@ 70 :> 934 @@ 88 :> 935 @@
    89 :> 936 @@ 87 :> 937 @@
    97 :> 945 @@ 98 :> 946 @@ 103 :> 947 @@ 100 :> 948 @@ 101 :> 949 @@ 118 :> 989 @@
    122 :> 950 @@ 104 :> 951 @@ 113 :> 952 @@ 105 :> 953 @@ 107 :> 954 @@ 108 :> 955 @@
    109 :> 956 @@ 110 :> 957 @@ 99 :> 958 @@ 111 :> 959 @@ 112 :> 960 @@ 114 :> 961 @@
    106 :> 962 @@ 115 :> 963 @@ 116 :> 964 @@ 117 :> 965 @@ 102 :> 966 @@ 120 :> 967 @@
    121 :> 968 @@ 119 :> 969 @@
    47 :> 769 @@ 92 :> 768 @@ 61 :> 834 @@ 41 :> 787 @@ 40 :> 788 @@ 124 :> 837 @@
    43 :> 776

\* code[r]: a Go map lookup, the zero rune for a key that is not in the map.
code(r) == IF r \in DOMAIN codeTable THEN codeTable[r] ELSE 0

\* CombiningString, as the sequence of code points of the string.
CombiningString(s) ==
    LET base == IF IsUpper(s.Base)
                THEN <<ToUpper(code(ToLower(s.Base)))>>
                ELSE <<code(s.Base)>>
        spir == IF s.Spiritus # 0 THEN <<code(s.Spiritus)>> ELSE <<>>
        acc  == IF s.Accent # 0 THEN <<code(s.Accent)>> ELSE <<>>
        iota == IF s.Iota THEN <<code(ch_iota)>> ELSE <<>>
        trem == IF s.Trema THEN <<code(ch_trema)>> ELSE <<>>
    IN  base \o spir \o acc \o iota \o trem

\* norm.NFC on the strings CombiningString builds: a starter followed by
\* combining marks of the code table.  Canonical combining class of a mark:
\* 240 for the ypogegrammeni U+0345, 230 for the other six.
CCC(c) == IF c = 837 THEN 240 ELSE IF c \in {769, 768, 834, 787, 788, 776} THEN 230 ELSE 0

\* Primary composites <<starter, mark, composite>> of alpha, Alpha, rho and
\* Rho (Unicode Greek and Greek Extended); the other letters the Writer is
\* driven with (sigma, final sigma, Sigma) and NUL have none.
Composites ==
    {<<913, 768, 8122>>, <<913, 769, 902>>, <<913, 787, 7944>>, <<913, 788, 7945>>,
     <<913, 837, 8124>>, <<929, 788, 8172>>, <<940, 837, 8116>>, <<945, 768, 8048>>,
     <<945, 769, 940>>, <<945, 787, 7936>>, <<945, 788, 7937>>, <<945, 834, 8118>>,
     <<945, 837, 8115>>, <<961, 787, 8164>>, <<961, 788, 8165>>, <<7936, 768, 7938>>,
     <<7936, 769, 7940>>, <<7936, 834, 7942>>, <<7936, 837, 8064>>, <<7937, 768, 7939>>,
     <<7937, 769, 7941>>, <<7937, 834, 7943>>, <<7937, 837, 8065>>, <<7938, 837, 8066>>,
     <<7939, 837, 8067>>, <<7940, 837, 8068>>, <<7941, 837, 8069>>, <<7942, 837, 8070>>,
     <<7943, 837, 8071>>, <<7944, 768, 7946>>, <<7944, 769, 7948>>, <<7944, 834, 7950>>,
     <<7944, 837, 8072>>, <<7945, 768, 7947>>, <<7945, 769, 7949>>, <<7945, 834, 7951>>,
     <<7945, 837, 8073>>, <<7946, 837, 8074>>, <<7947, 837, 8075>>, <<7948, 837, 8076>>,
     <<7949, 837, 8077>>, <<7950, 837, 8078>>, <<7951, 837, 8079>>, <<8048, 837, 8114>>,
     <<8118, 837, 8119>>}

HasComposite(x, m) == \E t \in Composites : t[1] = x /\ t[2] = m
Composite(x, m) == (CHOOSE t \in Composites : t[1] = x /\ t[2] = m)[3]

\* Canonical ordering: the marks sorted by combining class, stably.
Reorder(marks) ==
    LET Is230(c) == CCC(c) = 230
        Is240(c) == CCC(c) = 240
    IN  SelectSeq(marks, Is230) \o SelectSeq(marks, Is240)

\* Canonical composition: a mark combines with the starter unless a mark kept
\* before it has a class at least as high.
RECURSIVE ComposeMarks(_, _, _)
ComposeMarks(starter, kept, rest) ==
    IF rest = <<>> THEN <<starter>> \o kept
    ELSE LET c == Head(rest)
             blocked == kept # <<>> /\ CCC(kept[Len(kept)]) >= CCC(c)
         IN  IF ~blocked /\ HasComposite(starter, c)
             THEN ComposeMarks(Composite(starter, c), kept, Tail(rest))
             ELSE ComposeMarks(starter, Append(kept, c), Tail(rest))

NFC(str) == ComposeMarks(Head(str), <<>>, Reorder(Tail(str)))

\* PrecombinedString
PrecombinedString(s) == NFC(CombiningString(s))

\* Number of bytes of the UTF-8 encoding of a rune, of a string.
RuneLen(c) == IF c < 128 THEN 1 ELSE IF c < 2048 THEN 2 ELSE IF c < 65536 THEN 3 ELSE 4

RECURSIVE ByteLen(_)
ByteLen(str) == IF str = <<>> THEN 0 ELSE RuneLen(Head(str)) + ByteLen(Tail(str))

\* The runes the Sym API is driven with: a vowel, rho, a consonant (sigma),
\* an uppercase vowel and consonant, one marker of each kind, the asterisk
\* and a rune outside the alphabet.
SymRunes == {ch_a, ch_r, ch_s, ch_A, ch_S, ch_acute, ch_circumflex, ch_rough,
             ch_iota, ch_trema, ch_asterisk, ch_hash}

NoCall == [op |-> "none", r |-> 0, ok |-> TRUE, pre |-> ZeroSym]

WriterIdle ==
    /\ pc = "idle"
    /\ Combining = FALSE
    /\ p = <<>>
    /\ i = 0
    /\ out = <<>>
    /\ emitted = <<>>
    /\ total = 0
    /\ retn = 0
    /\ reterr = nil
    /\ gotos = 0
    /\ calls = 0

\* var sym Sym
Init ==
    /\ sym = ZeroSym
    /\ last = NoCall
    /\ WriterIdle

\* sym.Add(r)
SymAdd ==
    \E r \in SymRunes :
        LET res == Add(sym, r)
        IN  /\ sym' = res.sym
            /\ last' = [op |-> "Add", r |-> r, ok |-> res.ok, pre |-> sym]
            /\ UNCHANGED writervars

\* sym.Reset()
SymReset ==
    /\ sym' = Reset(sym)
    /\ last' = [op |-> "Reset", r |-> 0, ok |-> TRUE, pre |-> sym]
    /\ UNCHANGED writervars

Next == SymAdd \/ SymReset

Spec == Init /\ [][Next]_vars

(***************************************************************************)
(* Writer (writer.go)                                                      *)
(***************************************************************************)
\* const Ignored = ",.';:·?-–—[1234567890!] \t\n", the value NewWriter gives
\* Writer.Ignored.
Ignored == {44, 46, 39, 59, 58, 183, 63, 45, 8211, 8212, 91} \cup (48..57)
               \cup {33, 93, 32, 9, 10}

\* The runes Write is driven with: a vowel, sigma, an uppercase letter, an
\* accent, the asterisk, two ignored runes and a rune that is neither
\* Betacode nor ignored.
WriterRunes == {ch_a, ch_s, ch_S, ch_acute, ch_asterisk, ch_space, ch_comma, ch_hash}

Inputs == UNION {[1..n -> WriterRunes] : n \in 0..MaxLen}

\* The final-sigma rewrite as a no-op.
NoFinalSigma(s) == s

\* if sym.Base == 's' { sym.Base = 'j' }
FinalSigma(s) == IF s.Base = ch_s THEN [s EXCEPT !.Base = ch_j] ELSE s

\* wsym with the final-sigma rewrite inside it, applied to whatever it writes.
WsymTextFinal(s) ==
    IF Combining THEN CombiningString(FinalSigma(s)) ELSE PrecombinedString(FinalSigma(s))

\* The string wsym writes for s.
WsymText(s) == IF Combining THEN CombiningString(s) ELSE PrecombinedString(s)

EmittedSym(cause, s, at) == [kind |-> "sym", cause |-> cause, sym |-> s, r |-> 0, at |-> at]
EmittedRune(r, at) == [kind |-> "rune", cause |-> "ignored", sym |-> ZeroSym, r |-> r, at |-> at]

\* w := NewWriter(...), with Writer.Combining left false or set by the caller.
WriterInit ==
    /\ sym = ZeroSym
    /\ last = NoCall
    /\ pc = "idle"
    /\ Combining \in BOOLEAN
    /\ p = <<>>
    /\ i = 0
    /\ out = <<>>
    /\ emitted = <<>>
    /\ total = 0
    /\ retn = 0
    /\ reterr = nil
    /\ gotos = 0
    /\ calls = 0

\* The local sym of a Write call that took over what the call before it left.
LocalSymRetained(old) == old

\* var sym Sym: a new local variable with the zero value in every call.
LocalSym(old) == ZeroSym

\* w.Write(p): s := string(p); total := 0; var sym Sym; the range loop starts.
WriteCall ==
    /\ pc = "idle"
    /\ calls < MaxCalls
    /\ \E in \in Inputs : p' = in
    /\ sym' = LocalSym(sym)
    /\ last' = NoCall
    /\ pc' = "loop"
    /\ i' = 1
    /\ out' = <<>>
    /\ emitted' = <<>>
    /\ total' = 0
    /\ retn' = 0
    /\ reterr' = nil
    /\ gotos' = 0
    /\ calls' = calls + 1
    /\ UNCHANGED Combining

\* A loop iteration on an ignored rune: final sigma, wsym, WriteRune, continue.
\* (The writes go to a bufio.Writer whose buffer the bounded input never
\* fills, so they return no error.)
WriteIgnored ==
    /\ pc = "loop"
    /\ i <= Len(p)
    /\ p[i] \in Ignored
    /\ LET s1 == FinalSigma(sym)
           t == WsymText(s1)
       IN  /\ out' = out \o <<t, <<p[i]>>>>
           /\ emitted' = emitted \o <<EmittedSym("ignored", sym, i), EmittedRune(p[i], i)>>
           /\ total' = total + ByteLen(t) + RuneLen(p[i])
           /\ sym' = Reset(s1)
           /\ last' = [op |-> "Reset", r |-> 0, ok |-> TRUE, pre |-> s1]
    /\ i' = i + 1
    /\ gotos' = 0
    /\ UNCHANGED <<pc, Combining, p, retn, reterr, calls>>

\* nextsym: ok := sym.Add(r), reached from the top of a loop iteration on a
\* rune that is not ignored, or by goto nextsym.
WriteNextsym ==
    /\ pc \in {"loop", "nextsym"}
    /\ i <= Len(p)
    /\ pc = "loop" => p[i] \notin Ignored
    /\ gotos < MaxGotos
    /\ LET res == Add(sym, p[i])
           call == [op |-> "Add", r |-> p[i], ok |-> res.ok, pre |-> sym]
       IN  IF res.ok
           THEN \* next iteration
                /\ sym' = res.sym
                /\ last' = call
                /\ pc' = "loop"
                /\ i' = i + 1
                /\ gotos' = 0
                /\ UNCHANGED <<out, emitted, total, retn, reterr>>
           ELSE IF Err(res.sym) # nil
           THEN \* return total, err: err is the result parameter, not yet assigned
                /\ sym' = res.sym
                /\ last' = call
                /\ pc' = "done"
                /\ retn' = total
                /\ reterr' = reterr
                /\ UNCHANGED <<i, out, emitted, total, gotos>>
           ELSE \* wsym(); goto nextsym
                LET t == WsymText(res.sym)
                IN  /\ out' = Append(out, t)
                    /\ emitted' = Append(emitted, EmittedSym("boundary", res.sym, i))
                    /\ total' = total + ByteLen(t)
                    /\ sym' = Reset(res.sym)
                    /\ last' = call
                    /\ pc' = "nextsym"
                    /\ gotos' = gotos + 1
                    /\ UNCHANGED <<i, retn, reterr>>
    /\ UNCHANGED <<Combining, p, calls>>

\* After the loop: err = wsym(); return total, err.
WriteEnd ==
    /\ pc = "loop"
    /\ i > Len(p)
    /\ LET t == WsymText(sym)
       IN  /\ out' = Append(out, t)
           /\ emitted' = Append(emitted, EmittedSym("end", sym, i))
           /\ total' = total + ByteLen(t)
           /\ retn' = total + ByteLen(t)
           /\ reterr' = nil
           /\ sym' = Reset(sym)
           /\ last' = [op |-> "Reset", r |-> 0, ok |-> TRUE, pre |-> sym]
    /\ pc' = "done"
    /\ UNCHANGED <<Combining, p, i, gotos, calls>>

\* The caller takes the result (n, err); the Writer is ready for the next
\* Write.  What the call left in its local sym stays where it was.
WriteReturn ==
    /\ pc = "done"
    /\ pc' = "idle"
    /\ p' = <<>>
    /\ i' = 0
    /\ out' = <<>>
    /\ emitted' = <<>>
    /\ total' = 0
    /\ retn' = 0
    /\ reterr' = nil
    /\ last' = NoCall
    /\ UNCHANGED <<sym, Combining, gotos, calls>>

WriterNext == WriteCall \/ WriteIgnored \/ WriteNextsym \/ WriteEnd \/ WriteReturn

WriterSpec == WriterInit /\ [][WriterNext]_vars

(***************************************************************************)
(* Properties of Sym                                                       *)
(***************************************************************************)
IsBaseLetter(r) == (r >= ch_A /\ r <= ch_Z) \/ (r >= ch_a /\ r <= ch_z)

AccentMarkers == {ch_acute, ch_grave, ch_circumflex}
BreathingMarkers == {ch_rough, ch_smooth}

\* The fields of s with the marker r recorded.
WithMarker(s, r) ==
    IF r \in AccentMarkers THEN [s EXCEPT !.Accent = r]
    ELSE IF r \in BreathingMarkers THEN [s EXCEPT !.Spiritus = r]
    ELSE IF r = ch_iota THEN [s EXCEPT !.Iota = TRUE]
    ELSE IF r = ch_trema THEN [s EXCEPT !.Trema = TRUE]
    ELSE s

\* Add(r) on pre sees the base letter of the next symbol.
IsBoundary(pre, r) == IsBaseLetter(r) /\ ~pre.ast /\ ~Empty(pre)

\* C5: on a Sym whose base is set, Add of a base letter returns false,
\* records no error and changes no field: a base, once set, is not
\* overwritten by Add.
C5_BaseLetterOnSetBaseIsBoundary ==
    (last.op = "Add" /\ IsBaseLetter(last.r) /\ last.pre.Base # 0)
        => (~last.ok /\ sym = last.pre)

\* C6: Add('*') on a Sym with a base returns false, records the
\* misplaced-asterisk error and leaves the asterisk flag alone; on a Sym
\* without a base it returns true and sets the flag.
C6_AsteriskAfterBaseRejected ==
    (last.op = "Add" /\ last.r = ch_asterisk)
        => IF last.pre.Base # 0
           THEN /\ ~last.ok
                /\ sym.err = "asterisk not at start of word"
                /\ sym.ast = last.pre.ast
           ELSE last.ok /\ sym.ast

\* C7: whenever the base is set, an accent, an iota subscript or a
\* diaeresis is recorded only on a vowel, and a breathing only on a vowel
\* or rho.
C7_DiacriticsFitLetterClass ==
    sym.Base # 0 =>
        /\ sym.Accent # 0 => vowel(sym.Base)
        /\ sym.Iota => vowel(sym.Base)
        /\ sym.Trema => vowel(sym.Base)
        /\ sym.Spiritus # 0 => (vowel(sym.Base) \/ sym.Base = ch_r \/ sym.Base = ch_R)

C9_ErrKeptUntilReset ==
    (last.op = "Add" /\ last.pre.err # nil) => sym.err # nil

\* C10: when Add returns false, Err() is nil exactly when the rune was the
\* base letter of the next symbol.
C10_FalseWithNilErrIffBoundary ==
    (last.op = "Add" /\ ~last.ok)
        => ((Err(sym) = nil) <=> IsBoundary(last.pre, last.r))

\* C13: with no pending asterisk, an accent, '|' or '+' on a base that is
\* not a vowel, or a breathing on a base that is neither a vowel nor rho,
\* makes Add return false with an error recorded and no field set.
C13_MisplacedMarkerRejected ==
    (/\ last.op = "Add"
     /\ ~last.pre.ast
     /\ \/ /\ last.r \in AccentMarkers \cup {ch_iota, ch_trema}
           /\ ToLower(last.pre.Base) \notin Vowels
        \/ /\ last.r \in BreathingMarkers
           /\ ToLower(last.pre.Base) \notin Vowels \cup {ch_r})
        => /\ ~last.ok
           /\ Err(sym) # nil
           /\ [sym EXCEPT !.err = nil] = [last.pre EXCEPT !.err = nil]

\* C13 witness: a rough breathing has been refused on the base 's'.
C13_Witness ==
    /\ last.op = "Add" /\ last.r = ch_rough
    /\ last.pre.Base = ch_s /\ ~last.pre.ast /\ last.pre.err = nil
    /\ ~last.ok /\ Err(sym) # nil /\ sym.Spiritus = 0

\* C14: Reset leaves the zero Sym, whatever the Sym was: every field, the
\* asterisk flag and the error are cleared, Empty() is true, and every Add
\* gives what it gives on a fresh Sym.
C14_ResetGivesFreshSym ==
    last.op = "Reset" =>
        /\ sym = ZeroSym
        /\ sym.Base = 0 /\ sym.Accent = 0 /\ sym.Spiritus = 0
        /\ ~sym.Iota /\ ~sym.Trema /\ ~sym.ast /\ Err(sym) = nil
        /\ Empty(sym)
        /\ \A r \in SymRunes : Add(sym, r) = Add(ZeroSym, r)

\* C14 witness: Reset has cleared a Sym with a base, a pending asterisk and
\* an error recorded.
C14_Witness ==
    /\ last.op = "Reset"
    /\ last.pre.Base # 0 /\ last.pre.ast /\ last.pre.err # nil /\ last.pre.Accent # 0
    /\ sym = ZeroSym

\* C19: an Add that returns false with an error of its own changes no field
\* but the error, and a Sym with a marker recorded is never Empty().
C19_RejectedAddChangesOnlyErr ==
    /\ (last.op = "Add" /\ ~last.ok /\ ~IsBoundary(last.pre, last.r))
          => [sym EXCEPT !.err = nil] = [last.pre EXCEPT !.err = nil]
    /\ (last.op = "Add" /\ ~Empty(last.pre) /\ Empty(sym))
          => (sym.Accent = 0 /\ sym.Spiritus = 0 /\ ~sym.Iota /\ ~sym.Trema)

(***************************************************************************)
(* A caller that feeds one symbol to a Sym, rune by rune (TestBeta)        *)
(***************************************************************************)
Letters == (ch_A..ch_Z) \cup (ch_a..ch_z)

\* The sets of markers with at most one accent and at most one breathing.
MarkerSets ==
    {D \in SUBSET (AccentMarkers \cup BreathingMarkers \cup {ch_iota, ch_trema}) :
        /\ Cardinality(D \cap AccentMarkers) <= 1
        /\ Cardinality(D \cap BreathingMarkers) <= 1}

\* The orders in which the runes of D can be fed.
Orders(D) ==
    {f \in [1..Cardinality(D) -> D] : \A k, l \in DOMAIN f : k # l => f[k] # f[l]}

\* TypeGreek order: the base letter, then its markers in any order.
RelaxedInputs ==
    {<<b>> \o f : b \in Letters, f \in UNION {Orders(D) : D \in MarkerSets}}

\* Standard Betacode order: '*', accent and breathing in any order, then a
\* lowercase base letter.
StandardInputs ==
    {<<ch_asterisk>> \o f \o <<b>> :
        b \in ch_a..ch_z,
        f \in UNION {Orders(D) : D \in {E \in MarkerSets : E \subseteq AccentMarkers \cup BreathingMarkers}}}

FeedInputs == RelaxedInputs \cup StandardInputs

\* var sym Sym, and the runes to add to it.
FeedInit ==
    /\ sym = ZeroSym
    /\ last = NoCall
    /\ pc = "feed"
    /\ p \in FeedInputs
    /\ i = 1
    /\ Combining = FALSE
    /\ out = <<>>
    /\ emitted = <<>>
    /\ total = 0
    /\ retn = 0
    /\ reterr = nil
    /\ gotos = 0
    /\ calls = 0

\* The next sym.Add(r) of the caller; the value returned is not looked at.
FeedAdd ==
    /\ pc = "feed"
    /\ i <= Len(p)
    /\ LET res == Add(sym, p[i])
       IN  /\ sym' = res.sym
           /\ last' = [op |-> "Add", r |-> p[i], ok |-> res.ok, pre |-> sym]
    /\ i' = i + 1
    /\ UNCHANGED <<pc, Combining, p, out, emitted, total, retn, reterr, gotos, calls>>

FeedNext == FeedAdd

FeedSpec == FeedInit /\ [][FeedNext]_vars

\* All the runes of p have been added.
FeedDone == pc = "feed" /\ i > Len(p)

\* The runes fed after the first one.
FedMarkers == {p[k] : k \in 2..Len(p)}

\* The markers in D fit the letter class of the base b.
FitsLetterClass(b, D) ==
    IF ToLower(b) \in Vowels THEN TRUE
    ELSE IF b = ch_r \/ b = ch_R THEN D \subseteq BreathingMarkers
    ELSE D = {}

\* The one element of D that is in M, or 0.
TheOne(D, M) == IF D \cap M = {} THEN 0 ELSE CHOOSE m \in D \cap M : TRUE

\* C11: a base letter followed by markers that fit its letter class, in any
\* order, gives the Sym with that base and exactly those markers and no
\* error, and String() lists the base, the breathing, the accent, '|', '+'.
C11_MarkerOrderIrrelevant ==
    (FeedDone /\ IsBaseLetter(p[1]) /\ FitsLetterClass(p[1], FedMarkers)) =>
        /\ sym = [Base |-> p[1],
                  Accent |-> TheOne(FedMarkers, AccentMarkers),
                  Spiritus |-> TheOne(FedMarkers, BreathingMarkers),
                  Iota |-> ch_iota \in FedMarkers,
                  Trema |-> ch_trema \in FedMarkers,
                  ast |-> FALSE,
                  err |-> nil]
        /\ String(sym) =
             <<p[1]>>
               \o (IF FedMarkers \cap BreathingMarkers # {}
                   THEN <<TheOne(FedMarkers, BreathingMarkers)>> ELSE <<>>)
               \o (IF FedMarkers \cap AccentMarkers # {}
                   THEN <<TheOne(FedMarkers, AccentMarkers)>> ELSE <<>>)
               \o (IF ch_iota \in FedMarkers THEN <<ch_iota>> ELSE <<>>)
               \o (IF ch_trema \in FedMarkers THEN <<ch_trema>> ELSE <<>>)

\* C11 witness: 'a', '|', '=', ')' has been fed and String() is "a)=|".
C11_Witness ==
    /\ FeedDone
    /\ p = <<ch_a, ch_iota, ch_circumflex, ch_smooth>>
    /\ String(sym) = <<ch_a, ch_smooth, ch_circumflex, ch_iota>>

\* The Sym after the runes of str have been added to s, one after the other.
RECURSIVE AddAll(_, _)
AddAll(s, str) == IF str = <<>> THEN s ELSE AddAll(Add(s, Head(str)).sym, Tail(str))

\* C12: '*', an accent and a breathing (at most one of each, in any order),
\* then a lowercase vowel v gives the same accent and breathing as v followed
\* by the same markers, with base the uppercase of v, the asterisk flag
\* cleared and no error.
C12_StandardOrderMatchesRelaxed ==
    (FeedDone /\ p[1] = ch_asterisk /\ vowel(p[Len(p)])) =>
        LET v == p[Len(p)]
            relaxed == AddAll(ZeroSym, <<v>> \o SubSeq(p, 2, Len(p) - 1))
        IN  /\ sym.Accent = relaxed.Accent
            /\ sym.Spiritus = relaxed.Spiritus
            /\ sym.Accent = TheOne({p[k] : k \in 2..(Len(p) - 1)}, AccentMarkers)
            /\ sym.Spiritus = TheOne({p[k] : k \in 2..(Len(p) - 1)}, BreathingMarkers)
            /\ relaxed.Base = v
            /\ sym.Base = v - 32
            /\ ~sym.Iota /\ ~sym.Trema
            /\ ~sym.ast
            /\ Err(sym) = nil

\* C12 witness: '*', ')', '=', 'a' has been fed and String() is "A)=".
C12_Witness ==
    /\ FeedDone
    /\ p = <<ch_asterisk, ch_smooth, ch_circumflex, ch_a>>
    /\ String(sym) = <<ch_A, ch_smooth, ch_circumflex>>

(***************************************************************************)
(* Properties of Writer.Write                                              *)
(***************************************************************************)
\* The call in progress has returned from the Rejected branch of nextsym.
StoppedAtRejected == pc = "done" /\ last.op = "Add"

\* The call in progress has returned after the loop.
ReturnedAtEnd == pc = "done" /\ last.op = "Reset"

\* C1: a Write that stops at a rune whose Add returned false with an error
\* recorded returns that error, never nil.
C1_RejectedReturnsSymErr ==
    StoppedAtRejected => (reterr # nil /\ reterr = Err(sym))

\* C2: every rendering Write emits is of a non-empty symbol; on an ignored
\* rune read with an empty symbol, and at the end of input after an ignored
\* rune, no symbol is emitted.
C2_OnlyNonEmptySymEmitted ==
    \A k \in DOMAIN emitted :
        emitted[k].kind = "sym" => ~Empty(emitted[k].sym)

\* C3: a symbol with base 's' is written with the final-sigma base 'j'
\* exactly when an ignored rune ends it; ended by the next base letter or by
\* the end of input it is written with base 's', and a symbol with any other
\* base is written with its base as it is.
C3_FinalSigmaIffEndedByIgnored ==
    \A k \in DOMAIN emitted :
        LET e == emitted[k] IN
        e.kind = "sym" =>
            /\ e.sym.Base = ch_s =>
                 /\ out[k][1] = gr_finalsigma <=> e.cause = "ignored"
                 /\ out[k][1] = gr_sigma <=> e.cause # "ignored"
            /\ out[k] = WsymText(IF e.sym.Base = ch_s /\ e.cause = "ignored"
                                 THEN [e.sym EXCEPT !.Base = ch_j] ELSE e.sym)

\* C3 witness: one call has written a sigma ended by the next base letter
\* as a medial sigma and a sigma ended by an ignored rune as a final sigma.
C3_Witness ==
    \E k, l \in DOMAIN emitted :
        /\ emitted[k].kind = "sym" /\ emitted[k].sym.Base = ch_s
        /\ emitted[k].cause = "boundary" /\ out[k][1] = gr_sigma
        /\ emitted[l].kind = "sym" /\ emitted[l].sym.Base = ch_s
        /\ emitted[l].cause = "ignored" /\ out[l][1] = gr_finalsigma

\* What the input asks for, for C4: one symbol per base letter, carrying the
\* markers that followed it or, after an asterisk, preceded it (the letter
\* then folded to uppercase), and every ignored rune, in input order.
RefClose(items, cur) ==
    IF cur.Base # 0 THEN Append(items, [kind |-> "sym", sym |-> cur, r |-> 0]) ELSE items

RECURSIVE RefItems(_, _, _)
RefItems(rest, items, cur) ==
    IF rest = <<>> THEN RefClose(items, cur)
    ELSE LET r == Head(rest) IN
         IF r \in Ignored
         THEN RefItems(Tail(rest),
                       Append(RefClose(items, cur), [kind |-> "rune", sym |-> ZeroSym, r |-> r]),
                       ZeroSym)
         ELSE IF r = ch_asterisk
         THEN RefItems(Tail(rest), RefClose(items, cur), [ZeroSym EXCEPT !.ast = TRUE])
         ELSE IF IsBaseLetter(r)
         THEN IF cur.Base = 0 /\ cur.ast
              THEN RefItems(Tail(rest), items, [cur EXCEPT !.Base = ToUpper(r), !.ast = FALSE])
              ELSE RefItems(Tail(rest), RefClose(items, cur), [ZeroSym EXCEPT !.Base = r])
         ELSE RefItems(Tail(rest), items, WithMarker(cur, r))

\* The symbols with a base letter and the ignored runes that were written,
\* each symbol with the fields that are rendered.
EmittedItems ==
    LET HasLetter(e) == e.kind = "rune" \/ e.sym.Base # 0
        es == SelectSeq(emitted, HasLetter)
    IN  [k \in DOMAIN es |->
            [kind |-> es[k].kind,
             sym |-> [es[k].sym EXCEPT !.err = nil, !.ast = FALSE],
             r |-> es[k].r]]

\* C4: a Write in which no Add returned false with an error has written, in
\* input order, one symbol per base letter of the input with that letter's
\* markers, and every ignored rune.
C4_OneSymbolPerBaseLetter ==
    ReturnedAtEnd => EmittedItems = RefItems(p, <<>>, ZeroSym)

\* What is left to do of the Write call in progress: two steps for each rune
\* not yet added, one less when the symbol before it has been written.
Measure == 2 * (Len(p) + 1 - i) + (IF pc = "nextsym" THEN 0 ELSE 1)

\* A step of a Write call in progress either returns or leaves strictly less
\* to do, and what is left is never negative.
WriteProgress ==
    pc \in {"loop", "nextsym"}
        => \/ pc' = "done"
           \/ pc' \in {"loop", "nextsym"} /\ Measure' < Measure /\ Measure' >= 0

\* C15: goto nextsym is taken at most once for a rune, the Add retried on the
\* reset symbol returns true, and Write returns: every step of a call either
\* returns or leaves strictly less to do.
C15_RetryOnceAndWriteReturns ==
    /\ [](gotos <= 1)
    /\ [](pc = "nextsym" => (Empty(sym) /\ Add(sym, p[i]).ok))
    /\ [][WriteProgress]_vars

\* C15 witness: a rune that ended a symbol has been added to the reset
\* symbol at the first retry, and the loop has gone on to the next rune.
C15_Witness ==
    /\ pc = "loop" /\ i > 1 /\ gotos = 0
    /\ last.op = "Add" /\ last.ok /\ last.pre = ZeroSym /\ last.r = p[i - 1]
    /\ emitted # <<>>
    /\ emitted[Len(emitted)].cause = "boundary"
    /\ emitted[Len(emitted)].at = i - 1

\* C16: a symbol with base 's' in flight when the input ends is written as it
\* is, with the medial sigma; a final sigma is written for a symbol with base
\* 's' only at the position of an ignored rune.
C16_EndOfInputKeepsSigma ==
    /\ ReturnedAtEnd =>
         LET e == emitted[Len(emitted)] IN
         /\ e.kind = "sym" /\ e.cause = "end" /\ e.at = Len(p) + 1
         /\ out[Len(out)] = WsymText(e.sym)
         /\ e.sym.Base = ch_s => out[Len(out)][1] = gr_sigma
    /\ \A k \in DOMAIN emitted :
         (emitted[k].kind = "sym" /\ emitted[k].sym.Base = ch_s
            /\ out[k][1] = gr_finalsigma)
         => (emitted[k].at <= Len(p) /\ p[emitted[k].at] \in Ignored)

\* C16 witness: a Write whose input ends in 's' has returned, having written
\* that sigma in its medial form.
C16_Witness ==
    /\ ReturnedAtEnd
    /\ Len(p) >= 1 /\ p[Len(p)] = ch_s
    /\ emitted[Len(emitted)].sym.Base = ch_s
    /\ out[Len(out)][1] = gr_sigma

\* A Write call starts.
WriteStarts == pc = "idle" /\ pc' = "loop"

\* C17: every Write call starts with the zero symbol whatever the calls
\* before it left; a call that returns after the loop has written its symbol
\* and reset it; a marker that is the first rune of a call is added to the
\* zero symbol and so never joins a base letter of an earlier call.
C17_NoSymbolAcrossCalls ==
    /\ [][WriteStarts => (sym' = ZeroSym /\ Empty(sym'))]_vars
    /\ []((pc = "loop" /\ i = 1) => sym = ZeroSym)
    /\ [](ReturnedAtEnd =>
            /\ Empty(sym) /\ sym = ZeroSym
            /\ emitted[Len(emitted)].kind = "sym"
            /\ emitted[Len(emitted)].cause = "end")
    /\ []((pc # "idle" /\ Len(p) >= 1 /\ p[1] \in AccentMarkers) =>
            /\ i = 1
            /\ pc = "done" => (StoppedAtRejected /\ last.pre = ZeroSym /\ sym.Base = 0))

\* C17 witness: the second call on a Writer was given an accent as its first
\* rune and has stopped there, the accent refused by the zero symbol.
C17_Witness ==
    /\ calls = 2
    /\ StoppedAtRejected
    /\ p[1] = ch_acute /\ i = 1
    /\ last.pre = ZeroSym

\* What the input read so far has completed, for C18: as RefItems, but the
\* symbol still open at the end of rest is left out.
RECURSIVE RefBefore(_, _, _)
RefBefore(rest, items, cur) ==
    IF rest = <<>> THEN items
    ELSE LET r == Head(rest) IN
         IF r \in Ignored
         THEN RefBefore(Tail(rest),
                        Append(RefClose(items, cur), [kind |-> "rune", sym |-> ZeroSym, r |-> r]),
                        ZeroSym)
         ELSE IF r = ch_asterisk
         THEN RefBefore(Tail(rest), RefClose(items, cur), [ZeroSym EXCEPT !.ast = TRUE])
         ELSE IF IsBaseLetter(r)
         THEN IF cur.Base = 0 /\ cur.ast
              THEN RefBefore(Tail(rest), items, [cur EXCEPT !.Base = ToUpper(r), !.ast = FALSE])
              ELSE RefBefore(Tail(rest), RefClose(items, cur), [ZeroSym EXCEPT !.Base = r])
         ELSE RefBefore(Tail(rest), items, WithMarker(cur, r))

\* Everything that was written, each symbol with the fields that are rendered.
AllEmittedItems ==
    [k \in DOMAIN emitted |->
        [kind |-> emitted[k].kind,
         sym |-> [emitted[k].sym EXCEPT !.err = nil, !.ast = FALSE],
         r |-> emitted[k].r]]

RECURSIVE SumByteLen(_)
SumByteLen(ts) == IF ts = <<>> THEN 0 ELSE ByteLen(Head(ts)) + SumByteLen(Tail(ts))

\* The returned count is the number of bytes written, and no rune after the
\* refused one was read.
StopCountsAndConsumes ==
    StoppedAtRejected =>
        /\ retn = total /\ retn = SumByteLen(out)
        /\ i <= Len(p) /\ p[i] = last.r
        /\ \A k \in DOMAIN emitted : emitted[k].at <= i

\* C18: a Write that stops at a refused rune has written exactly the symbols
\* and ignored runes completed before the symbol that was given that rune,
\* not the symbol in flight; it has read nothing after the refused rune and
\* returns the number of bytes written.
C18_StopEmitsCompletedOnly ==
    /\ StopCountsAndConsumes
    /\ StoppedAtRejected => AllEmittedItems = RefBefore(SubSeq(p, 1, i - 1), <<>>, ZeroSym)
====
